---- MODULE Spec2Model ----
(***************************************************************************)
(* Model of the stay-oceanus/stripe-server relay.                          *)
(*                                                                         *)
(* The repository holds several revisions of one Express server.  The     *)
(* variable rev says which revision is deployed; every handler is         *)
(* translated per revision.  A request is followed from its arrival to    *)
(* its HTTP response; every await of the handler (session lookup, forward *)
(* to GAS, provider session creation) is a suspension point at which      *)
(* other requests may run.                                                *)
(***************************************************************************)
EXTENDS Integers, Sequences, FiniteSets, TLC

(***************************************************************************)
(* Bounds of the model.                                                    *)
(***************************************************************************)
\* number of requests followed (they may be in flight at the same time)
MaxReqs == 1

Reqs == 1..MaxReqs

(***************************************************************************)
(* JavaScript values and the coercions the handlers rely on.               *)
(***************************************************************************)
JUndef == [js |-> "undefined"]
JNull == [js |-> "null"]
JNaN == [js |-> "number", nan |-> TRUE]
JInf == [js |-> "number", inf |-> 1]
JNegInf == [js |-> "number", inf |-> -1]
JTrue == [js |-> "boolean", b |-> TRUE]

JStr(s) == [js |-> "string", s |-> s]

JNum(n) == [js |-> "number", n |-> n]

IsStr(v) == v.js = "string"

IsFiniteNum(v) == v.js = "number" /\ "n" \in DOMAIN v

\* the numeric strings the model feeds in, with their values under Number()
NumericStrings == ("5000" :> 5000) @@ ("0" :> 0) @@ ("-5" :> -5) @@ ("25000" :> 25000)

\* ToBoolean: what `!x`, `x || y` and `if (x)` test
Truthy(v) ==
  CASE v.js = "undefined" -> FALSE
    [] v.js = "null" -> FALSE
    [] v.js = "boolean" -> v.b
    [] v.js = "string" -> v.s # ""
    [] v.js = "number" -> IF "n" \in DOMAIN v THEN v.n # 0 ELSE "inf" \in DOMAIN v
    [] OTHER -> TRUE

\* ToNumber: what Number(x) returns and what isNaN(x) tests
ToNumber(v) ==
  CASE v.js = "undefined" -> JNaN
    [] v.js = "null" -> JNum(0)
    [] v.js = "boolean" -> JNum(IF v.b THEN 1 ELSE 0)
    [] v.js = "number" -> v
    [] v.js = "string" ->
         IF v.s = "" THEN JNum(0)
         ELSE IF v.s \in DOMAIN NumericStrings THEN JNum(NumericStrings[v.s])
         ELSE IF v.s = "Infinity" THEN JInf
         ELSE JNaN
    [] OTHER -> JNaN

isNaN(v) == ToNumber(v) = JNaN

\* a || b
Or(a, b) == IF Truthy(a) THEN a ELSE b

\* o.k on an object modelled as a function from its keys
Get(o, k) == IF k \in DOMAIN o THEN o[k] ELSE JUndef

\* an optional object: <<>> when the property is absent, <<o>> when present
NoObject == <<>>

Some(o) == <<o>>

\* o?.k on an optional object
OptGet(opt, k) == IF opt = NoObject THEN JUndef ELSE Get(opt[1], k)

\* the empty object {}
EmptyObj == [k \in {} |-> JUndef]

\* arr.includes(x) on an array modelled as a sequence
Includes(arr, x) == \E i \in 1..Len(arr) : arr[i] = x

\* arr?.[0]
First(arr) == IF Len(arr) = 0 THEN JUndef ELSE arr[1]

(***************************************************************************)
(* The revisions of the server held by the repository.                     *)
(***************************************************************************)
\* server.js 1-185, 186-431, 432-558; part_000; part_001;
\* part_002 1-60, 62-353, 354-428
Revisions ==
  {"server_1", "server_2", "server_3", "part0", "part1", "part2_1", "part2_2", "part2_3"}

\* the revisions that register POST /webhook
WebhookRevs == {"server_1", "server_2", "server_3", "part0", "part1", "part2_2"}

\* the revisions that register POST /create-checkout-session
CreateRevs == {"server_1", "server_2", "part0", "part1", "part2_1", "part2_2", "part2_3"}

\* the revisions whose webhook handler computes status and method from
\* payment_method_types.includes('konbini')
KonbiniRevs == {"server_1", "server_2", "part2_2"}

\* the revisions whose webhook handler copies session.payment_status
PassThroughRevs == {"part0", "part1"}

(***************************************************************************)
(* Provider events.                                                        *)
(***************************************************************************)
COMPLETED == "checkout.session.completed"
SUCCEEDED == "payment_intent.succeeded"
CANCELED == "payment_intent.canceled"
EXPIRED == "checkout.session.expired"
ASYNC_FAILED == "checkout.session.async_payment_failed"
REFUNDED == "charge.refunded"
ASYNC_SUCCEEDED == "checkout.session.async_payment_succeeded"
CANCEL_RESERVATION == "cancel_reservation"

EventTypes == {COMPLETED, SUCCEEDED, CANCELED, EXPIRED, ASYNC_FAILED, REFUNDED}

\* the literal status strings of the konbini revisions:
\* 'shiharai kanryo' (payment complete), 'shiharai machi' (awaiting
\* payment), 'kyanseru' (cancelled)
KANRYO == JStr("shiharai-kanryo")
MACHI == JStr("shiharai-machi")
KYANSERU == JStr("kyanseru")

\* the metadata a checkout session was created with
SessionMeta == ("checkin" :> JStr("2025-06-02")) @@ ("email" :> JStr("s@x"))

\* a checkout session object as the provider delivers it
Session(types, pstatus) ==
  [id |-> JStr("cs_1"),
   payment_intent |-> JStr("pi_1"),
   payment_status |-> pstatus,
   payment_method_types |-> types,
   customer_details |-> Some([email |-> JStr("c@x")]),
   metadata |-> Some(SessionMeta)]

CARD == JStr("card")
KONBINI == JStr("konbini")

\* card only; card+konbini paid by card; card+konbini awaiting a store
\* payment; konbini only
Sessions ==
  {Session(<<CARD>>, JStr("paid")),
   Session(<<CARD, KONBINI>>, JStr("paid")),
   Session(<<CARD, KONBINI>>, JStr("unpaid")),
   Session(<<KONBINI>>, JStr("unpaid"))}

\* a payment intent object; metadata is an optional object
PaymentIntent(receipt, meta) ==
  [id |-> JStr("pi_1"), receipt_email |-> receipt, metadata |-> meta]

ReceiptEmails == {JNull, JStr(""), JStr("r@x")}

IntentMetas ==
  {NoObject, Some(EmptyObj), Some("email" :> JStr("")), Some("email" :> JStr("m@x"))}

PaymentIntents == {PaymentIntent(e, m) : e \in ReceiptEmails, m \in IntentMetas}

\* the intents of the payment-succeeded events (their email plays no part)
SucceededIntents == {PaymentIntent(JNull, m) : m \in {Some(EmptyObj), Some("email" :> JStr("m@x"))}}

Event(type, object) ==
  [id |-> JStr("evt_1"), type |-> type, created |-> JNum(1), livemode |-> FALSE,
   object |-> object]

Events ==
  {Event(COMPLETED, s) : s \in Sessions}
  \cup {Event(SUCCEEDED, p) : p \in SucceededIntents}
  \cup {Event(CANCELED, p) : p \in PaymentIntents}
  \cup {Event(EXPIRED, Session(<<CARD, KONBINI>>, JStr("unpaid"))),
        Event(ASYNC_FAILED, Session(<<CARD, KONBINI>>, JStr("unpaid"))),
        Event(REFUNDED, [id |-> JStr("ch_1")])}

NoEvent == [type |-> "none"]

(***************************************************************************)
(* State.                                                                  *)
(***************************************************************************)
VARIABLES
  rev,            \* the deployed revision
  webhookSecret,  \* TRUE when STRIPE_WEBHOOK_SECRET is configured
  gasWebhookUrl,  \* TRUE when the destination URL is set (GAS_WEBHOOK_URL;
                  \* part_000 has the constant GAS_ENDPOINT)
  req,            \* the requests: handler position, locals, response
  clock,          \* the instant new Date() returns, when a behaviour pins
                  \* it; NoObject when every read may return any instant
  stripe,         \* the payment provider, when a behaviour follows one
                  \* checkout session: the session, the metadata its
                  \* creating request supplied, how far its payment is, and
                  \* the events awaiting a 2xx from the webhook
  gas             \* the payloads the downstream collaborator has received

vars == <<rev, webhookSecret, gasWebhookUrl, req, clock, stripe, gas>>

\* what no request handler writes
config == <<rev, webhookSecret, gasWebhookUrl, clock>>

\* the handlers' collaborators
world == <<stripe, gas>>

(***************************************************************************)
(* Event normalisation: the payload each revision builds.                  *)
(***************************************************************************)
\* checkout.session.completed branch
CompletedPayload(rv, event) ==
  LET session == event.object
      konbini == Includes(session.payment_method_types, KONBINI)
  IN IF rv \in KonbiniRevs
     THEN [type |-> JStr(event.type),
           data |-> session,
           payment_status |-> IF konbini THEN MACHI ELSE KANRYO,
           payment_method |-> IF konbini THEN KONBINI ELSE CARD]
     ELSE [type |-> JStr(event.type),
           data |-> session,
           payment_status |-> session.payment_status,
           payment_method |-> Or(First(session.payment_method_types), JStr(""))]

\* a payload stamped from a module-level counter of the forwards in flight
SucceededPayloadStamped(rv, session) ==
  [type |-> JStr(SUCCEEDED),
   data |-> session,
   payment_status |-> KANRYO,
   payment_method |-> KONBINI,
   seq |-> Cardinality({o \in DOMAIN req : req[o].pc = "fetch"})]

\* payment_intent.succeeded branch, once the lookup has returned a session
SucceededPayload(rv, session) ==
  IF rv \in KonbiniRevs
  THEN [type |-> JStr(SUCCEEDED),
        data |-> session,
        payment_status |-> KANRYO,
        payment_method |-> KONBINI]
  ELSE [type |-> JStr(ASYNC_SUCCEEDED),
        data |-> session,
        payment_status |-> session.payment_status,
        payment_method |-> Or(First(session.payment_method_types), JStr(""))]

\* paymentIntent.receipt_email || paymentIntent.metadata?.email || ''
customerEmail(paymentIntent) ==
  Or(Or(paymentIntent.receipt_email, OptGet(paymentIntent.metadata, "email")), JStr(""))

\* payment_intent.canceled branch
CanceledPayload(rv, event) ==
  LET paymentIntent == event.object
  IN IF rv \in KonbiniRevs
     THEN [type |-> JStr(CANCELED),
           email |-> customerEmail(paymentIntent),
           payment_intent |-> paymentIntent.id,
           payment_status |-> KYANSERU,
           payment_method |-> KONBINI]
     ELSE [type |-> JStr(CANCEL_RESERVATION),
           email |-> customerEmail(paymentIntent),
           payment_intent |-> paymentIntent.id]

\* server.js revision 3: the payload of every checkout.session.* event
buildCheckoutPayload(event) ==
  LET session == event.object
  IN [type |-> JStr(event.type),
      created |-> event.created,
      livemode |-> event.livemode,
      sessionId |-> Or(Or(Or(Get(session, "id"), Get(event, "sessionId")),
                          Get(event, "id")), JNull),
      id |-> Or(Get(session, "id"), JNull),
      payment_intent |-> Or(Or(Get(session, "payment_intent"),
                               Get(event, "payment_intent")), JNull),
      payment_status |-> Or(Or(Get(session, "payment_status"),
                               Get(event, "payment_status")), JNull),
      payment_method_types |->
        IF "payment_method_types" \in DOMAIN session
        THEN session.payment_method_types ELSE <<>>,
      customer_email |->
        Or(Or(IF "customer_details" \in DOMAIN session
              THEN OptGet(session.customer_details, "email") ELSE JUndef,
              Get(session, "customer_email")), JNull),
      metadata |-> IF "metadata" \in DOMAIN session THEN session.metadata ELSE Some(EmptyObj),
      data |-> session]

\* event.type.startsWith('checkout.session.')
IsCheckoutSessionType(type) == type \in {COMPLETED, EXPIRED, ASYNC_FAILED}

\* the provider before any session exists
NoProvider ==
  [session |-> NoObject, supplied |-> NoObject, stage |-> "none", outbox |-> {}]

\* A request.  event, session, payload and createArgs are the handler's
\* locals; they are discarded with the response.  The other fields record
\* what the handler did: verified (constructEvent returned), kind (the
\* event type of the body), lookup (outcome of sessions.list), resp (what
\* the downstream answered), fwd (how the forwarder returned), the numbers
\* of calls issued, and the response.  For a session-creation request:
\* amount, checkin and enc record the amount and the check-in date of the
\* request and the encoding that carried the date.
IdleReq ==
  [route |-> "none", pc |-> "idle",
   event |-> NoEvent, session |-> NoObject, payload |-> NoObject,
   createArgs |-> NoObject,
   verified |-> FALSE, kind |-> "none", lookup |-> "none", resp |-> "none",
   fwd |-> "none", lookups |-> 0, fwdCalls |-> 0, posts |-> 0,
   providerCalls |-> 0, amount |-> JUndef, checkin |-> JUndef, enc |-> "none",
   responses |-> 0, status |-> 0, body |-> "none"]

\* res.status(st).send/json(bd); the handler returns
Respond(q, st, bd) ==
  [q EXCEPT !.pc = "done", !.responses = @ + 1, !.status = st, !.body = bd,
            !.event = NoEvent, !.session = NoObject, !.payload = NoObject,
            !.createArgs = NoObject]

\* the body of the 200 response of the webhook route
ReceivedBody(rv) == IF rv = "part0" THEN "Received" ELSE "received_json"

(***************************************************************************)
(* POST /webhook                                                           *)
(***************************************************************************)
\* stripe.webhooks.constructEvent returns the event only for a body signed
\* with the configured secret; a missing secret makes every revision throw
constructEvent(secret, sigOK) == secret /\ sigOK

\* a forwarder without the `if (!gasWebhookUrl) return` guard
DestinationAlways(rv, url) == TRUE

\* part_000 posts to the constant GAS_ENDPOINT; the others read the URL
\* from the environment
DestinationSet(rv, url) == rv = "part0" \/ url

\* how forwardEventToGas returns once fetch has settled with resp
forwardEventToGas(resp) == IF resp = "2xx" THEN "ok" ELSE "threw"

\* how postToGAS (part_000) returns once fetch has settled with resp
postToGAS(resp) == "ok"

\* a handler that calls the forwarder without await and answers at once
ForwardNoAwait(rv, url, q, payload) ==
  Respond([q EXCEPT !.payload = Some(payload), !.fwdCalls = @ + 1,
                    !.posts = @ + 1, !.fwd = "pending"],
          200, ReceivedBody(rv))

\* await forwardEventToGas(payload) / await postToGAS(payload), up to its
\* first suspension
Forward(rv, url, q, payload) ==
  IF DestinationSet(rv, url)
  THEN [q EXCEPT !.pc = "fetch", !.payload = Some(payload),
                 !.fwdCalls = @ + 1, !.posts = @ + 1, !.fwd = "pending"]
  ELSE [q EXCEPT !.pc = "skipped", !.payload = Some(payload),
                 !.fwdCalls = @ + 1, !.fwd = "skipped"]

\* the dispatch on event.type, up to the first await or the response
dispatch(rv, url, q) ==
  LET event == q.event
  IN IF rv = "server_3"
     THEN IF IsCheckoutSessionType(event.type)
          THEN Forward(rv, url, q, buildCheckoutPayload(event))
          ELSE Respond(q, 200, ReceivedBody(rv))
     ELSE CASE event.type = COMPLETED ->
                 Forward(rv, url, q, CompletedPayload(rv, event))
            [] event.type = SUCCEEDED ->
                 [q EXCEPT !.pc = "lookup", !.lookups = @ + 1, !.lookup = "pending"]
            [] event.type = CANCELED ->
                 Forward(rv, url, q, CanceledPayload(rv, event))
            [] OTHER -> Respond(q, 200, ReceivedBody(rv))

\* a handler whose catch block logs the verification failure and goes on
\* with the parsed body
webhookNoReturn(rv, secret, url, q, sigOK, event) ==
  dispatch(rv, url, [q EXCEPT !.verified = constructEvent(secret, sigOK),
                              !.event = event])

\* the handler from the arrival of the request to its first await
webhook(rv, secret, url, q, sigOK, event) ==
  IF ~constructEvent(secret, sigOK)
  THEN Respond(q, 400, "webhook_error")
  ELSE dispatch(rv, url, [q EXCEPT !.verified = TRUE, !.event = event])

\* a handler without the `if (session)` guard: reading a field of the
\* missing session throws
afterLookupNoGuard(rv, url, q, res) ==
  IF ~res.ok
  THEN IF rv = "part0"
       THEN Respond([q EXCEPT !.lookup = "error"], 200, ReceivedBody(rv))
       ELSE Respond([q EXCEPT !.lookup = "error"], 500, "forward_error")
  ELSE IF Len(res.data) = 0
       THEN Respond([q EXCEPT !.lookup = "empty"], 500, "forward_error")
       ELSE Forward(rv, url,
                    [q EXCEPT !.lookup = "found", !.session = Some(res.data[1])],
                    SucceededPayload(rv, res.data[1]))

\* a handler that keeps the looked-up session in a module-level variable,
\* which another request's completed event overwrites
afterLookupShared(rv, url, q, res) ==
  LET others == {o \in DOMAIN req : req[o].pc = "fetch" /\ req[o].kind = COMPLETED}
  IN IF ~res.ok
     THEN IF rv = "part0"
          THEN Respond([q EXCEPT !.lookup = "error"], 200, ReceivedBody(rv))
          ELSE Respond([q EXCEPT !.lookup = "error"], 500, "forward_error")
     ELSE IF Len(res.data) = 0
          THEN Respond([q EXCEPT !.lookup = "empty"], 200, ReceivedBody(rv))
          ELSE Forward(rv, url,
                       [q EXCEPT !.lookup = "found", !.session = Some(res.data[1])],
                       SucceededPayload(rv,
                                        IF others = {} THEN res.data[1]
                                        ELSE req[CHOOSE o \in others : TRUE].event.object))

\* the handler after stripe.checkout.sessions.list has settled
afterLookup(rv, url, q, res) ==
  IF ~res.ok
  THEN IF rv = "part0"
       THEN Respond([q EXCEPT !.lookup = "error"], 200, ReceivedBody(rv))
       ELSE Respond([q EXCEPT !.lookup = "error"], 500, "forward_error")
  ELSE IF Len(res.data) = 0
       THEN Respond([q EXCEPT !.lookup = "empty"], 200, ReceivedBody(rv))
       ELSE Forward(rv, url,
                    [q EXCEPT !.lookup = "found", !.session = Some(res.data[1])],
                    SucceededPayload(rv, res.data[1]))

\* a handler that posts the payload a second time when the first POST failed
afterFetchRetryOnce(rv, q, resp) ==
  LET outcome == IF rv = "part0" THEN postToGAS(resp) ELSE forwardEventToGas(resp)
      q2 == [q EXCEPT !.resp = resp, !.fwd = outcome]
  IN IF outcome = "ok"
     THEN Respond(q2, 200, ReceivedBody(rv))
     ELSE IF q.posts < 2
     THEN [q2 EXCEPT !.pc = "fetch", !.posts = @ + 1, !.fwd = "pending"]
     ELSE Respond(q2, 500, "forward_error")

\* the handler after the forwarder's fetch has settled
afterFetch(rv, q, resp) ==
  LET outcome == IF rv = "part0" THEN postToGAS(resp) ELSE forwardEventToGas(resp)
      q2 == [q EXCEPT !.resp = resp, !.fwd = outcome]
  IN IF outcome = "ok"
     THEN Respond(q2, 200, ReceivedBody(rv))
     ELSE Respond(q2, 500, "forward_error")

\* sessions.list({payment_intent, limit: 1}) rejects, or resolves with no
\* session or one
LookupResults ==
  {[ok |-> FALSE]} \cup {[ok |-> TRUE, data |-> <<>>]}
  \cup {[ok |-> TRUE, data |-> <<s>>] : s \in Sessions}

\* fetch resolves with a 2xx or another status, or rejects
FetchResults == {"2xx", "non2xx", "neterr"}

WebhookReceive(r) ==
  /\ rev \in WebhookRevs
  /\ req[r].pc = "idle"
  /\ \E sigOK \in BOOLEAN, event \in Events :
       req' = [req EXCEPT ![r] =
                 webhook(rev, webhookSecret, gasWebhookUrl,
                         [@ EXCEPT !.route = "webhook", !.kind = event.type],
                         sigOK, event)]
  /\ UNCHANGED <<config, world>>

LookupReturn(r) ==
  /\ req[r].pc = "lookup"
  /\ \E res \in LookupResults :
       req' = [req EXCEPT ![r] = afterLookup(rev, gasWebhookUrl, @, res)]
  /\ UNCHANGED <<config, world>>

FetchReturn(r) ==
  /\ req[r].pc = "fetch"
  /\ \E resp \in FetchResults :
       req' = [req EXCEPT ![r] = afterFetch(rev, @, resp)]
  /\ UNCHANGED <<config, world>>

\* forwardEventToGas returned without a network call; the handler resumes
SkippedReturn(r) ==
  /\ req[r].pc = "skipped"
  /\ req' = [req EXCEPT ![r] = Respond(@, 200, ReceivedBody(rev))]
  /\ UNCHANGED <<config, world>>

(***************************************************************************)
(* Civil dates and the sell-stop rule (part_002, second revision).         *)
(***************************************************************************)
SELL_STOP_HOUR == 12
SELL_STOP_MIN == 0

IsLeap(y) == (y % 4 = 0 /\ y % 100 # 0) \/ y % 400 = 0

DaysIn(y, m) ==
  IF m = 2 THEN (IF IsLeap(y) THEN 29 ELSE 28)
  ELSE IF m \in {4, 6, 9, 11} THEN 30 ELSE 31

\* new Date(y, m - 1, d) for a month 1..12 and a day 1..62: a day past the
\* end of the month rolls over into the following months
RECURSIVE MkDate(_, _, _)
MkDate(y, m, d) ==
  IF d <= DaysIn(y, m) THEN [y |-> y, m |-> m, d |-> d]
  ELSE IF m = 12 THEN MkDate(y + 1, 1, d - DaysIn(y, m))
  ELSE MkDate(y, m + 1, d - DaysIn(y, m))

\* an instant, as its UTC calendar fields
Instant(y, m, d, h, mi) == [y |-> y, m |-> m, d |-> d, h |-> h, mi |-> mi]

\* nowJST(): the wall clock of Asia/Tokyo (UTC+9, no daylight saving) at
\* the instant, re-read as a local date
nowJST(instant) ==
  LET h == instant.h + 9
      day == IF h >= 24 THEN MkDate(instant.y, instant.m, instant.d + 1)
             ELSE MkDate(instant.y, instant.m, instant.d)
  IN [y |-> day.y, m |-> day.m, d |-> day.d, h |-> h % 24, mi |-> instant.mi]

isAfterSellStopStrict(now) ==
  now.h > SELL_STOP_HOUR

isAfterSellStop(now) ==
  (now.h > SELL_STOP_HOUR) \/ (now.h = SELL_STOP_HOUR /\ now.mi >= SELL_STOP_MIN)

\* checkinStr.split('-').map(Number) for the strings the model feeds in;
\* any other string yields NaN fields and an invalid date
DateStrings ==
  ("2025-06-02" :> <<2025, 6, 2>>) @@ ("2025-06-01" :> <<2025, 6, 1>>)
  @@ ("2025-06-03" :> <<2025, 6, 3>>) @@ ("2026-01-01" :> <<2026, 1, 1>>)
  @@ ("2025-03-01" :> <<2025, 3, 1>>) @@ ("2025-02-29" :> <<2025, 2, 29>>)

isTomorrowJST(checkin, instant) ==
  IF ~Truthy(checkin) THEN FALSE
  ELSE IF ~IsStr(checkin) \/ checkin.s \notin DOMAIN DateStrings THEN FALSE
  ELSE LET now == nowJST(instant)
           tomorrow == MkDate(now.y, now.m, now.d + 1)
           ymd == DateStrings[checkin.s]
           day == MkDate(ymd[1], ymd[2], ymd[3])
       IN day.y = tomorrow.y /\ day.m = tomorrow.m /\ day.d = tomorrow.d

\* the instants at which a session-creation request is handled: 11:59,
\* 12:00 and 23:59 JST of 2025-06-01, of the year's end, of the end of
\* February
Instants ==
  {Instant(2025, 6, 1, 2, 59), Instant(2025, 6, 1, 3, 0), Instant(2025, 6, 1, 14, 59),
   Instant(2025, 12, 31, 2, 59), Instant(2025, 12, 31, 3, 0),
   Instant(2025, 2, 28, 3, 0), Instant(2025, 5, 31, 15, 0)}

(***************************************************************************)
(* POST /create-checkout-session                                           *)
(***************************************************************************)
\* req.body.metadata || {}
bodyMetadata(body) == IF "metadata" \in DOMAIN body THEN body.metadata ELSE EmptyObj

\* metadata.email = metadata.email || req.body.email || '' and the three
\* assignments after it
completeMetadata(body) ==
  LET m == bodyMetadata(body)
  IN [k \in DOMAIN m \cup {"email", "phone", "total", "detail"} |->
        CASE k = "email" -> Or(Or(Get(m, "email"), Get(body, "email")), JStr(""))
          [] k = "phone" -> Or(Or(Get(m, "phone"), Get(body, "tel")), JStr(""))
          [] k = "total" -> Or(Or(Get(m, "total"), Get(body, "amount")), JStr(""))
          [] k = "detail" -> Or(Get(m, "detail"), JStr(""))
          [] OTHER -> m[k]]

\* part_000: the metadata literal of the flat fields
Part0Keys ==
  {"checkin", "checkout", "nights", "adults", "child11", "child6", "child3",
   "kanaLastName", "kanaFirstName", "kanjiLastName", "kanjiFirstName",
   "email", "phone", "total", "detail"}

part0Metadata(body) ==
  [k \in Part0Keys |->
     Or(Get(body, IF k = "phone" THEN "tel" ELSE IF k = "total" THEN "amount" ELSE k),
        JStr(""))]

\* part_002, third revision: the metadata literal of the flat fields
Part23Keys ==
  {"checkin", "checkout", "nights", "adults", "child11", "child6", "child3",
   "kana", "kanji", "tel", "detail"}

part23Metadata(body) == [k \in Part23Keys |-> Or(Get(body, k), JStr(""))]

\* part_001: the keys of the form metadata[xxx], with key.slice(9, -1)
BracketKeys ==
  ("metadata[checkin]" :> "checkin") @@ ("metadata[email]" :> "email")
  @@ ("metadata[total]" :> "total")

\* part_001: metadata[xxx] keys first, then the flat fields that are
\* neither undefined, null nor ''
part1Metadata(body) ==
  LET bracketed == {k \in DOMAIN body : k \in DOMAIN BracketKeys}
      flat == {k \in Part0Keys :
                 k \in DOMAIN body /\ body[k] \notin {JUndef, JNull, JStr("")}}
  IN [k \in {BracketKeys[b] : b \in bracketed} \cup flat |->
        IF k \in flat THEN body[k]
        ELSE body[CHOOSE b \in bracketed : BracketKeys[b] = k]]

\* !amount || isNaN(amount)
InvalidAmount(amount) == ~Truthy(amount) \/ isNaN(amount)

\* stripe.checkout.sessions.create(args) is called; the handler awaits it
CallCreate(q, types, unit_amount, email, metadata) ==
  [q EXCEPT !.pc = "create", !.providerCalls = @ + 1,
            !.createArgs = Some([payment_method_types |-> types,
                                 unit_amount |-> unit_amount,
                                 customer_email |-> Or(email, JUndef),
                                 metadata |-> metadata])]

\* the handler from the arrival of the request to its first await
createCheckoutSession(rv, q, body, instant) ==
  LET amount == Get(body, "amount")
      email == Get(body, "email")
  IN CASE rv \in {"server_1", "server_2"} ->
            IF InvalidAmount(amount)
            THEN Respond(q, 400, "invalid_amount")
            ELSE CallCreate(q, IF rv = "server_1" THEN <<CARD, KONBINI>> ELSE <<CARD>>,
                            ToNumber(amount), email, Some(completeMetadata(body)))
       [] rv = "part2_2" ->
            IF isTomorrowJST(Get(bodyMetadata(body), "checkin"), instant)
               /\ isAfterSellStop(nowJST(instant))
            THEN Respond(q, 400, "cutoff")
            ELSE IF InvalidAmount(amount)
            THEN Respond(q, 400, "invalid_amount")
            ELSE CallCreate(q, <<CARD, KONBINI>>, ToNumber(amount), email,
                            Some(completeMetadata(body)))
       [] rv = "part1" ->
            LET metadata == part1Metadata(body)
                amount1 == Or(amount, Get(metadata, "total"))
                email1 == Or(email, Get(metadata, "email"))
            IN IF InvalidAmount(amount1)
               THEN Respond(q, 400, "invalid_amount")
               ELSE CallCreate(q, <<CARD, KONBINI>>, ToNumber(amount1), email1,
                               Some(metadata))
       [] rv = "part0" ->
            CallCreate(q, <<CARD, KONBINI>>, Or(amount, JNum(25000)), email,
                       Some(part0Metadata(body)))
       [] rv = "part2_1" ->
            CallCreate(q, <<CARD, KONBINI>>, Or(amount, JNum(25000 * 100)), email,
                       NoObject)
       [] rv = "part2_3" ->
            CallCreate(q, <<CARD, KONBINI>>, Or(amount, JNum(25000)), email,
                       Some(part23Metadata(body)))

\* the handler after sessions.create has settled
afterCreate(q, ok) ==
  IF ok THEN Respond(q, 200, "url") ELSE Respond(q, 500, "error")

\* the amounts of the request bodies; JUndef stands for an absent field
AmountInputs ==
  {JUndef, JNull, JStr(""), JStr("abc"), JStr("5000"), JNum(5000), JNum(0),
   JStr("0"), JNum(-5), JStr("-5"), JInf, JStr("Infinity")}

\* a body with the given amount and the given other fields
WithAmount(amount, rest) ==
  IF amount = JUndef THEN rest ELSE ("amount" :> amount) @@ rest

\* the fields other than amount: none; a flat check-in; a nested metadata
\* object; a bracketed form key
BodyShapes ==
  {EmptyObj,
   ("email" :> JStr("g@x")) @@ ("checkin" :> JStr("2025-06-02")),
   ("email" :> JStr("g@x")) @@ ("metadata" :> ("checkin" :> JStr("2025-06-02"))),
   ("metadata[checkin]" :> JStr("2025-06-02")) @@ ("metadata[total]" :> JStr("5000"))}

CreateBodies == {WithAmount(a, b) : a \in AmountInputs, b \in BodyShapes}

\* the check-in dates of the requests that exercise the sell-stop rule
CheckinInputs ==
  {JStr("2025-06-01"), JStr("2025-06-02"), JStr("2025-06-03"),
   JStr("2026-01-01"), JStr("2025-03-01")}

\* a request with a valid amount whose check-in is a flat field, or sits
\* inside a nested metadata object, or is a metadata[checkin] form field
Flat(date) == ("amount" :> JStr("5000")) @@ ("checkin" :> date)

Nested(date) == ("amount" :> JNum(5000)) @@ ("metadata" :> ("checkin" :> date))

Bracketed(date) == ("amount" :> JStr("5000")) @@ ("metadata[checkin]" :> date)

\* the revisions that install express.urlencoded({ extended: true })
UrlencodedRevs == {"server_1", "server_2", "part1", "part2_2"}

\* qs with extended: true turns the field metadata[checkin] into the
\* property checkin of a nested object metadata
qsParse(fields) ==
  IF "metadata[checkin]" \in DOMAIN fields
  THEN [k \in (DOMAIN fields \ {"metadata[checkin]"}) \cup {"metadata"} |->
          IF k = "metadata" THEN ("checkin" :> fields["metadata[checkin]"])
          ELSE fields[k]]
  ELSE fields

\* req.body: express.json parses a JSON body; express.urlencoded, where
\* installed, parses a form body; otherwise req.body is {}
parseBody(rv, rq) ==
  IF rq.ctype = "json" THEN rq.fields
  ELSE IF rv \in UrlencodedRevs THEN qsParse(rq.fields)
  ELSE EmptyObj

\* the session-creation requests: JSON bodies, and two form bodies
CreateRequests ==
  {[ctype |-> "json", fields |-> b] : b \in CreateBodies}
  \cup {[ctype |-> "form", fields |-> Flat(JStr("2025-06-02"))],
        [ctype |-> "form", fields |-> Bracketed(JStr("2025-06-02"))]}

\* the requests that exercise the sell-stop rule: every check-in date in
\* every encoding
CutoffRequests ==
  {[ctype |-> "json", fields |-> Flat(d)] : d \in CheckinInputs}
  \cup {[ctype |-> "json", fields |-> Nested(d)] : d \in CheckinInputs}
  \cup {[ctype |-> "form", fields |-> Flat(d)] : d \in CheckinInputs}
  \cup {[ctype |-> "form", fields |-> Bracketed(d)] : d \in CheckinInputs}

\* the instants new Date() may return
ClockReads == IF clock = NoObject THEN Instants ELSE {clock[1]}

\* the check-in date a request carries, and the encoding that carries it
RequestedCheckin(rq) ==
  IF "checkin" \in DOMAIN rq.fields THEN rq.fields["checkin"]
  ELSE IF "metadata" \in DOMAIN rq.fields THEN Get(rq.fields["metadata"], "checkin")
  ELSE Get(rq.fields, "metadata[checkin]")

Encoding(rq) ==
  IF "checkin" \in DOMAIN rq.fields THEN "flat"
  ELSE IF "metadata" \in DOMAIN rq.fields THEN "nested"
  ELSE IF "metadata[checkin]" \in DOMAIN rq.fields
       THEN (IF rq.ctype = "form" THEN "bracket" ELSE "literal")
       ELSE "none"

\* the route: the body parsers, then the handler
createRoute(rv, q, rq, instant) ==
  createCheckoutSession(rv,
                        [q EXCEPT !.route = "create",
                                  !.amount = Get(rq.fields, "amount"),
                                  !.checkin = RequestedCheckin(rq),
                                  !.enc = Encoding(rq)],
                        parseBody(rv, rq), instant)

CreateReceive(r) ==
  /\ rev \in CreateRevs
  /\ req[r].pc = "idle"
  /\ \E rq \in CreateRequests, instant \in ClockReads :
       req' = [req EXCEPT ![r] = createRoute(rev, @, rq, instant)]
  /\ UNCHANGED <<config, world>>

CreateReturn(r) ==
  /\ req[r].pc = "create"
  /\ \E ok \in BOOLEAN :
       req' = [req EXCEPT ![r] = afterCreate(@, ok)]
  /\ UNCHANGED <<config, world>>

(***************************************************************************)
(* Specification.                                                          *)
(***************************************************************************)
(***************************************************************************)
(* POST /create-custom-session                                             *)
(***************************************************************************)
\* the revisions that register POST /create-custom-session
CustomRevs == {"server_2", "part2_2"}

\* { comment, checkin, checkout, createdBy: 'custom' }
customMetadata(body) ==
  [k \in {"comment", "checkin", "checkout", "createdBy"} |->
     IF k = "createdBy" THEN JStr("custom") ELSE Get(body, k)]

\* the handler from the arrival of the request to its first await:
\* stripe.checkout.sessions.create is called with no validation
createCustomSession(q, body) ==
  [q EXCEPT !.pc = "custom_create", !.providerCalls = @ + 1,
            !.createArgs = Some([payment_method_types |-> <<>>,
                                 unit_amount |-> ToNumber(Get(body, "amount")),
                                 customer_email |-> Get(body, "email"),
                                 metadata |-> Some(customMetadata(body))])]

\* a handler without the try/catch: the rejection of sessions.create is
\* left unhandled and the request is never answered
afterCustomCreateNoCatch(url, q, ok) ==
  IF ~ok THEN [q EXCEPT !.pc = "unhandled"]
  ELSE [q EXCEPT !.pc = "provisional", !.posts = IF url THEN @ + 1 ELSE @]

\* the handler after sessions.create has settled: on success it posts the
\* provisional reservation; fetch(undefined) rejects without a network call
afterCustomCreate(url, q, ok) ==
  IF ~ok THEN Respond(q, 500, "session_creation_failed")
  ELSE [q EXCEPT !.pc = "provisional", !.posts = IF url THEN @ + 1 ELSE @]

\* the handler after the provisional-reservation fetch has settled; the
\* response's status is not looked at
afterProvisional(q, resp) ==
  IF resp = "neterr" THEN Respond([q EXCEPT !.resp = resp], 500, "session_creation_failed")
  ELSE Respond([q EXCEPT !.resp = resp], 200, "url")

CustomBodies ==
  {EmptyObj,
   ("amount" :> JStr("5000")) @@ ("email" :> JStr("a@example.com"))
     @@ ("checkin" :> JStr("2025-06-02"))}

CustomReceive(r) ==
  /\ rev \in CustomRevs
  /\ req[r].pc = "idle"
  /\ \E body \in CustomBodies :
       req' = [req EXCEPT ![r] =
                 createCustomSession([@ EXCEPT !.route = "custom",
                                               !.amount = Get(body, "amount")],
                                     body)]
  /\ UNCHANGED <<config, world>>

CustomCreateReturn(r) ==
  /\ req[r].pc = "custom_create"
  /\ \E ok \in BOOLEAN :
       req' = [req EXCEPT ![r] = afterCustomCreate(gasWebhookUrl, @, ok)]
  /\ UNCHANGED <<config, world>>

ProvisionalReturn(r) ==
  /\ req[r].pc = "provisional"
  /\ \E resp \in (IF gasWebhookUrl THEN FetchResults ELSE {"neterr"}) :
       req' = [req EXCEPT ![r] = afterProvisional(@, resp)]
  /\ UNCHANGED <<config, world>>

Init ==
  /\ rev \in Revisions
  /\ webhookSecret \in BOOLEAN
  /\ gasWebhookUrl \in (IF rev = "part0" THEN {TRUE} ELSE BOOLEAN)
  /\ req = [r \in Reqs |-> IdleReq]
  /\ clock = NoObject
  /\ stripe = NoProvider
  /\ gas = <<>>

Next ==
  \E r \in DOMAIN req :
    \/ WebhookReceive(r)
    \/ LookupReturn(r)
    \/ FetchReturn(r)
    \/ SkippedReturn(r)
    \/ CreateReceive(r)
    \/ CreateReturn(r)
    \/ CustomReceive(r)
    \/ CustomCreateReturn(r)
    \/ ProvisionalReturn(r)

Spec == Init /\ [][Next]_vars

\* every outbound call settles: stripe-node gives up after its timeout and
\* fetch resolves or rejects; a handler whose await has settled is resumed
\* by the event loop
OutboundCallsSettle ==
  \A r \in Reqs :
    /\ WF_vars(LookupReturn(r))
    /\ WF_vars(FetchReturn(r))
    /\ WF_vars(SkippedReturn(r))
    /\ WF_vars(CreateReturn(r))
    /\ WF_vars(CustomCreateReturn(r))
    /\ WF_vars(ProvisionalReturn(r))

FairSpec == Spec /\ OutboundCallsSettle

(***************************************************************************)
(* Two webhook requests in flight at once.                                 *)
(***************************************************************************)
TwoRequests == {1, 2}

InitPair ==
  /\ rev \in WebhookRevs
  /\ webhookSecret = TRUE
  /\ gasWebhookUrl \in (IF rev = "part0" THEN {TRUE} ELSE BOOLEAN)
  /\ req = [r \in TwoRequests |-> IdleReq]
  /\ clock = NoObject
  /\ stripe = NoProvider
  /\ gas = <<>>

NextPair ==
  \E r \in DOMAIN req :
    \/ WebhookReceive(r)
    \/ LookupReturn(r)
    \/ FetchReturn(r)
    \/ SkippedReturn(r)

SpecPair == InitPair /\ [][NextPair]_vars

(***************************************************************************)
(* Session creation at a pinned instant: the sell-stop rule.               *)
(***************************************************************************)
CutoffReceive(r) ==
  /\ rev \in CreateRevs
  /\ req[r].pc = "idle"
  /\ \E rq \in CutoffRequests, instant \in ClockReads :
       req' = [req EXCEPT ![r] = createRoute(rev, @, rq, instant)]
  /\ UNCHANGED <<config, world>>

InitCutoff ==
  /\ rev \in CreateRevs
  /\ webhookSecret = TRUE
  /\ gasWebhookUrl = TRUE
  /\ req = [r \in Reqs |-> IdleReq]
  /\ clock \in {Some(i) : i \in Instants}
  /\ stripe = NoProvider
  /\ gas = <<>>

NextCutoff ==
  \E r \in DOMAIN req :
    \/ CutoffReceive(r)
    \/ CreateReturn(r)

SpecCutoff == InitCutoff /\ [][NextCutoff]_vars

(***************************************************************************)
(* One checkout session from its creation to its webhook events: the       *)
(* provider stores what sessions.create is given, emits the events of the  *)
(* payment and delivers each until the webhook answers 2xx; the downstream *)
(* collaborator records the payloads it accepts.                           *)
(***************************************************************************)
\* the revisions that register both routes
LifeRevs == WebhookRevs \cap CreateRevs

\* String(v) for the values sessions.create is given
Numerals == (5000 :> "5000") @@ (0 :> "0")

StringOf(v) ==
  IF IsStr(v) THEN v
  ELSE IF IsFiniteNum(v) /\ v.n \in DOMAIN Numerals THEN JStr(Numerals[v.n])
  ELSE JStr(v.js)

\* the metadata the provider stores: values as strings, entries without a
\* value or with an empty one not set
ProviderMetadata(metadata) ==
  IF metadata = NoObject THEN Some(EmptyObj)
  ELSE LET m == metadata[1]
       IN Some([k \in {x \in DOMAIN m : m[x] \notin {JUndef, JNull, JStr("")}} |->
                  StringOf(m[k])])

\* the session the provider creates from the arguments of sessions.create
ProviderSession(args) ==
  [id |-> JStr("cs_1"),
   payment_intent |-> JStr("pi_1"),
   payment_status |-> JStr("unpaid"),
   payment_method_types |-> args.payment_method_types,
   customer_details |-> Some([email |-> JStr("c@x")]),
   metadata |-> ProviderMetadata(args.metadata)]

\* the booking attributes a request supplies: a nested metadata object,
\* metadata[key] form fields, or flat fields
Supplied(rq) ==
  LET f == rq.fields
      bracketed == DOMAIN f \cap DOMAIN BracketKeys
  IN IF "metadata" \in DOMAIN f THEN f["metadata"]
     ELSE IF bracketed # {}
     THEN [k \in {BracketKeys[b] : b \in bracketed} |->
             f[CHOOSE b \in bracketed : BracketKeys[b] = k]]
     ELSE [k \in DOMAIN f \ {"amount", "email"} |-> f[k]]

LifeRequests ==
  {[ctype |-> "json",
    fields |-> ("amount" :> JNum(5000)) @@ ("email" :> JStr("g@x"))
               @@ ("metadata" :> (("checkin" :> JStr("2025-06-01"))
                                  @@ ("adults" :> JStr("2"))))],
   [ctype |-> "form", fields |-> Bracketed(JStr("2025-06-01"))],
   [ctype |-> "json", fields |-> Flat(JStr("2025-06-01"))]}

\* the first request for a session arrives
LifeCreate(r) ==
  /\ req[r].pc = "idle"
  /\ stripe.supplied = NoObject
  /\ \E rq \in LifeRequests, instant \in ClockReads :
       /\ req' = [req EXCEPT ![r] = createRoute(rev, @, rq, instant)]
       /\ stripe' = [stripe EXCEPT !.supplied = Some(Supplied(rq))]
  /\ UNCHANGED <<config, gas>>

\* sessions.create settles; on success the provider has the session
LifeCreateReturn(r) ==
  /\ req[r].pc = "create"
  /\ \E ok \in BOOLEAN :
       /\ req' = [req EXCEPT ![r] = afterCreate(@, ok)]
       /\ stripe' = IF ok
                    THEN [stripe EXCEPT
                            !.session = Some(ProviderSession(req[r].createArgs[1])),
                            !.stage = "open"]
                    ELSE stripe
  /\ UNCHANGED <<config, gas>>

\* the customer pays by card on the checkout page: the session is
\* completed and paid at once
CardPayment ==
  /\ stripe.stage = "open"
  /\ LET paid == [stripe.session[1] EXCEPT !.payment_status = JStr("paid")]
     IN stripe' = [stripe EXCEPT
                     !.session = Some(paid),
                     !.stage = "paid_card",
                     !.outbox = @ \cup {Event(COMPLETED, paid),
                                        Event(SUCCEEDED,
                                              PaymentIntent(JNull, Some(EmptyObj)))}]
  /\ UNCHANGED <<config, req, gas>>

\* the customer chooses to pay at a store: the session is completed and
\* awaits the payment
StoreCheckout ==
  /\ stripe.stage = "open"
  /\ Includes(stripe.session[1].payment_method_types, KONBINI)
  /\ stripe' = [stripe EXCEPT
                  !.stage = "awaiting",
                  !.outbox = @ \cup {Event(COMPLETED, stripe.session[1])}]
  /\ UNCHANGED <<config, req, gas>>

\* the customer pays at the store
StorePayment ==
  /\ stripe.stage = "awaiting"
  /\ stripe' = [stripe EXCEPT
                  !.session = Some([@[1] EXCEPT !.payment_status = JStr("paid")]),
                  !.stage = "paid_store",
                  !.outbox = @ \cup {Event(SUCCEEDED,
                                           PaymentIntent(JNull, Some(EmptyObj)))}]
  /\ UNCHANGED <<config, req, gas>>

\* the provider delivers, or delivers again, an event that has not had its
\* 2xx yet, in any order
Deliver(r) ==
  /\ req[r].pc = "idle"
  /\ \E event \in stripe.outbox :
       /\ \A o \in DOMAIN req : req[o].pc = "idle" \/ req[o].kind # event.type
       /\ req' = [req EXCEPT ![r] =
                    webhook(rev, webhookSecret, gasWebhookUrl,
                            [@ EXCEPT !.route = "webhook", !.kind = event.type],
                            TRUE, event)]
  /\ UNCHANGED <<config, world>>

\* sessions.list settles: it rejects, or returns the session of the intent
LifeLookupReturn(r) ==
  /\ req[r].pc = "lookup"
  /\ \E res \in {[ok |-> FALSE], [ok |-> TRUE, data |-> stripe.session]} :
       req' = [req EXCEPT ![r] = afterLookup(rev, gasWebhookUrl, @, res)]
  /\ UNCHANGED <<config, world>>

\* the forwarder's fetch settles; the collaborator has the payload when it
\* answered 2xx
LifeFetchReturn(r) ==
  /\ req[r].pc = "fetch"
  /\ \E resp \in FetchResults :
       /\ req' = [req EXCEPT ![r] = afterFetch(rev, @, resp)]
       /\ gas' = IF resp = "2xx" THEN Append(gas, req[r].payload[1]) ELSE gas
  /\ UNCHANGED <<config, stripe>>

\* the response reaches its client; a 2xx ends the deliveries of the
\* event, and the connection is free for the next request
Close(r) ==
  /\ req[r].pc = "done"
  /\ stripe' = IF req[r].route = "webhook" /\ req[r].status = 200
               THEN [stripe EXCEPT !.outbox = {e \in @ : e.type # req[r].kind}]
               ELSE stripe
  /\ req' = [req EXCEPT ![r] = IdleReq]
  /\ UNCHANGED <<config, gas>>

InitLife ==
  /\ rev \in LifeRevs
  /\ webhookSecret = TRUE
  /\ gasWebhookUrl = TRUE
  /\ req = [r \in Reqs |-> IdleReq]
  /\ clock = NoObject
  /\ stripe = NoProvider
  /\ gas = <<>>

NextLife ==
  \/ CardPayment
  \/ StoreCheckout
  \/ StorePayment
  \/ \E r \in DOMAIN req :
       \/ LifeCreate(r)
       \/ LifeCreateReturn(r)
       \/ Deliver(r)
       \/ LifeLookupReturn(r)
       \/ LifeFetchReturn(r)
       \/ Close(r)

SpecLife == InitLife /\ [][NextLife]_vars

(***************************************************************************)
(* Properties.                                                             *)
(***************************************************************************)
Webhooks == {r \in DOMAIN req : req[r].route = "webhook"}

Creates == {r \in DOMAIN req : req[r].route = "create"}

\* C1: a webhook request whose signature verification fails is answered
\* with 400, and neither the session lookup nor a forward is attempted for
\* it, whatever event its body claims.
C1_UnverifiedNeverForwarded ==
  \A r \in Webhooks :
    ~req[r].verified =>
      /\ req[r].pc = "done"
      /\ req[r].status = 400
      /\ req[r].lookups = 0
      /\ req[r].fwdCalls = 0
      /\ req[r].posts = 0

\* a body with a bad signature, claiming a completed checkout, was rejected
\* by a server whose secret is configured
C1_Witness ==
  \E r \in Webhooks :
    /\ webhookSecret
    /\ ~req[r].verified
    /\ req[r].kind = COMPLETED
    /\ req[r].status = 400

\* C2: the response of a webhook request is sent only after the forward of
\* its payload has completed: no response while the lookup or the forward
\* is pending, and a request that handed a payload to the forwarder is
\* answered only once the forwarder has returned.
C2_ResponseAfterForward ==
  \A r \in Webhooks :
    /\ req[r].pc \in {"lookup", "fetch", "skipped"} => req[r].status = 0
    /\ req[r].status # 0 =>
         /\ req[r].pc = "done"
         /\ req[r].fwd # "pending"
         /\ req[r].fwdCalls > 0 => req[r].fwd \in {"ok", "threw", "skipped"}

\* a request was answered with 200 after its POST to the downstream returned
C2_Witness ==
  \E r \in Webhooks :
    /\ req[r].status = 200
    /\ req[r].posts = 1
    /\ req[r].fwd = "ok"
    /\ req[r].resp = "2xx"

\* C3: the forward succeeds exactly when the downstream answers 2xx, and a
\* webhook whose forward got a non-2xx answer or a network error is
\* answered with 500, never with 200.
C3_ForwardFailureIs500 ==
  \A r \in Webhooks :
    req[r].pc = "done" /\ req[r].resp # "none" =>
      /\ req[r].fwd = "ok" <=> req[r].resp = "2xx"
      /\ req[r].resp # "2xx" => req[r].status = 500

\* C4 (as stated): with the destination URL not configured, a forward makes
\* no network call and raises no error, and every verified webhook event
\* is answered with 200 {received: true}.
C4_UnconfiguredAlways200 ==
  \A r \in Webhooks :
    req[r].verified /\ ~gasWebhookUrl =>
      /\ req[r].posts = 0
      /\ req[r].fwd # "threw"
      /\ req[r].pc = "done" => req[r].status = 200 /\ req[r].body = "received_json"

\* C4 (amended): with the destination URL not configured, a forward makes
\* no network call and raises no error, and a verified webhook event is
\* answered with 200 {received: true} unless its session lookup failed,
\* which is answered with 500.
C4_UnconfiguredNoCall ==
  \A r \in Webhooks :
    req[r].verified /\ ~gasWebhookUrl =>
      /\ req[r].posts = 0
      /\ req[r].fwd # "threw"
      /\ req[r].pc = "done" /\ req[r].lookup # "error" =>
           req[r].status = 200 /\ req[r].body = "received_json"
      /\ req[r].pc = "done" /\ req[r].lookup = "error" => req[r].status = 500

\* without a destination URL a payload was handed to the forwarder, no
\* POST was made and the request was answered with 200
C4_Witness ==
  \E r \in Webhooks :
    /\ ~gasWebhookUrl
    /\ req[r].fwdCalls = 1
    /\ req[r].fwd = "skipped"
    /\ req[r].posts = 0
    /\ req[r].status = 200

\* the statuses that mark a payload as awaiting payment, and as paid
PendingStatuses == {MACHI, JStr("unpaid")}

CompleteStatuses == {KANRYO, JStr("paid")}

\* C5: the payload of a verified checkout-session-completed event is
\* marked pending when the session's payment_method_types contains
\* konbini, and complete for every other list.
C5_StatusFollowsMethodTypes ==
  \A r \in Webhooks :
    req[r].verified /\ req[r].kind = COMPLETED /\ req[r].payload # NoObject =>
      IF Includes(req[r].event.object.payment_method_types, KONBINI)
      THEN req[r].payload[1].payment_status \in PendingStatuses
      ELSE req[r].payload[1].payment_status \in CompleteStatuses

\* C6: a verified payment-succeeded event whose lookup returns no session
\* forwards nothing, raises no error and is answered with 200.
C6_LookupMissIsNoOp ==
  \A r \in Webhooks :
    req[r].kind = SUCCEEDED /\ req[r].lookup = "empty" =>
      /\ req[r].pc = "done"
      /\ req[r].fwdCalls = 0
      /\ req[r].posts = 0
      /\ req[r].fwd = "none"
      /\ req[r].status = 200

\* a payment-succeeded event was looked up once and no session was found
C6_Witness ==
  \E r \in Webhooks :
    /\ req[r].verified
    /\ req[r].kind = SUCCEEDED
    /\ req[r].lookups = 1
    /\ req[r].lookup = "empty"
    /\ req[r].pc = "done"

\* C7: a verified payment-succeeded event whose lookup returns a session
\* forwards exactly one payload, typed as the async-succeeded checkout
\* completion, carrying the looked-up session (its id and metadata, not the
\* payment intent's), after exactly one lookup.
C7_SucceededRetyped ==
  \A r \in Webhooks :
    req[r].kind = SUCCEEDED /\ req[r].lookup = "found" =>
      /\ req[r].lookups = 1
      /\ req[r].fwdCalls = 1
      /\ req[r].payload # NoObject =>
           /\ req[r].payload[1].type = JStr(ASYNC_SUCCEEDED)
           /\ req[r].payload[1].data = req[r].session[1]
           /\ req[r].payload[1].data.metadata # req[r].event.object.metadata

\* the email the cancellation payload is to carry
BestEffortEmail(paymentIntent) ==
  IF Truthy(paymentIntent.receipt_email) THEN paymentIntent.receipt_email
  ELSE IF paymentIntent.metadata # NoObject
          /\ Truthy(Get(paymentIntent.metadata[1], "email"))
       THEN paymentIntent.metadata[1].email
       ELSE JStr("")

\* C8: every verified payment-canceled event yields a forwarded
\* cancellation payload with the payment-intent id and an email that is
\* receipt_email, else metadata.email, else '', and always a string.
C8_CanceledForwarded ==
  \A r \in Webhooks :
    req[r].verified /\ req[r].kind = CANCELED =>
      /\ req[r].fwdCalls = 1
      /\ req[r].payload # NoObject =>
           /\ req[r].payload[1].payment_intent = req[r].event.object.id
           /\ req[r].payload[1].email = BestEffortEmail(req[r].event.object)
           /\ IsStr(req[r].payload[1].email)

\* C9: a verified event of any other kind produces and forwards no payload
\* and is answered with 200.
C9_OtherKindsIgnored ==
  \A r \in Webhooks :
    req[r].verified /\ req[r].kind \notin {COMPLETED, SUCCEEDED, CANCELED} =>
      /\ req[r].pc = "done"
      /\ req[r].lookups = 0
      /\ req[r].fwdCalls = 0
      /\ req[r].posts = 0
      /\ req[r].status = 200

\* the amount is a finite positive number (or a string that denotes one)
FinitePositive(amount) ==
  amount.js \in {"number", "string"}
  /\ IsFiniteNum(ToNumber(amount))
  /\ ToNumber(amount).n > 0
  /\ amount # JStr("")

\* C10: a session-creation request whose amount is not a finite positive
\* number is answered with 400 {error: 'Invalid amount'} and no provider
\* call is made for it.
C10_InvalidAmountRejected ==
  \A r \in Creates :
    ~FinitePositive(req[r].amount) =>
      /\ req[r].pc = "done"
      /\ req[r].status = 400
      /\ req[r].body = "invalid_amount"
      /\ req[r].providerCalls = 0

\* the requests handled by the revision that has the sell-stop rule, at a
\* pinned instant
CutoffHandled ==
  {r \in Creates : rev = "part2_2" /\ clock # NoObject /\ req[r].pc # "idle"}

\* the requested check-in is the calendar day after the Asia/Tokyo day of
\* the pinned instant
CheckinIsTomorrow(r) ==
  LET i == clock[1]
      t == MkDate(i.y, i.m, i.d + ((i.h + 9) \div 24) + 1)
  IN /\ IsStr(req[r].checkin)
     /\ req[r].checkin.s \in DOMAIN DateStrings
     /\ DateStrings[req[r].checkin.s] = <<t.y, t.m, t.d>>

\* the Asia/Tokyo time of day of the pinned instant is 12:00 or later
AtOrAfterNoon ==
  LET i == clock[1]
  IN ((i.h + 9) % 24) * 60 + i.mi >= 12 * 60

C17_CutoffAnyEncoding ==
  \A r \in CutoffHandled :
    (req[r].enc \in {"flat", "nested", "bracket"}
       /\ CheckinIsTomorrow(r) /\ AtOrAfterNoon) =>
      /\ req[r].pc = "done"
      /\ req[r].status = 400
      /\ req[r].body = "cutoff"
      /\ req[r].providerCalls = 0

\* C14: a webhook request makes at most one call of the forwarder and at
\* most one downstream POST; once the POST has failed the request is over,
\* with that one POST and its response sent.
C14_AtMostOnePost ==
  \A r \in Webhooks :
    /\ req[r].fwdCalls <= 1
    /\ req[r].posts <= 1
    /\ req[r].resp \in {"non2xx", "neterr"} =>
          req[r].pc = "done" /\ req[r].posts = 1

\* a forward that failed, answered, with its one POST
C14_Witness ==
  \E r \in Webhooks :
    /\ req[r].resp \in {"non2xx", "neterr"}
    /\ req[r].pc = "done"
    /\ req[r].status = 500
    /\ req[r].posts = 1

\* C15: no request is ever answered twice, and every request that has
\* arrived, on the webhook route or on a session-creation route, is
\* eventually answered, exactly once, whether its outbound calls (session
\* lookup, forward, provider session creation) succeed or fail.
C15_ExactlyOneResponse ==
  /\ [](\A r \in Reqs : req[r].responses <= 1)
  /\ \A r \in Reqs :
       (req[r].pc # "idle") ~> (req[r].pc = "done" /\ req[r].responses = 1)

\* a custom session whose provider call failed, answered with 500
C15_Witness ==
  \E r \in DOMAIN req :
    /\ req[r].route = "custom"
    /\ req[r].pc = "done"
    /\ req[r].responses = 1
    /\ req[r].status = 500
    /\ req[r].providerCalls = 1
    /\ req[r].posts = 0
    /\ gasWebhookUrl

\* the payment_method_types a revision's /create-checkout-session passes to
\* the provider for a valid request
CreatedTypes(rv) ==
  createCheckoutSession(rv, IdleReq, "amount" :> JNum(5000),
                        Instant(2025, 6, 1, 2, 59)).createArgs[1].payment_method_types

\* C18: the checkout-session-completed event of a session that this
\* server created and that was paid by card (payment_status paid) is
\* forwarded with payment method card and a complete status.
C18_CardPaidReportedComplete ==
  \A r \in Webhooks :
    (/\ rev \in CreateRevs
     /\ req[r].verified /\ req[r].kind = COMPLETED /\ req[r].pc = "fetch"
     /\ req[r].event.object.payment_method_types = CreatedTypes(rev)
     /\ req[r].event.object.payment_status = JStr("paid")) =>
      /\ req[r].payload[1].payment_method = CARD
      /\ req[r].payload[1].payment_status \in CompleteStatuses

\* C19: a payload forwarded for a payment-succeeded event reports payment
\* method konbini only when the looked-up session's payment_method_types
\* contains konbini.
C19_KonbiniOnlyForKonbiniSessions ==
  \A r \in Webhooks :
    (/\ req[r].kind = SUCCEEDED /\ req[r].pc = "fetch"
     /\ req[r].payload[1].payment_method = KONBINI) =>
      Includes(req[r].session[1].payment_method_types, KONBINI)

\* the requests whose payload has been built and handed to the forwarder
Forwarding == {r \in Webhooks : req[r].pc \in {"fetch", "skipped"}}

OwnPayload(r) ==
  LET q == req[r]
      p == q.payload[1]
  IN CASE q.kind = SUCCEEDED ->
            /\ q.session # NoObject
            /\ p.data = q.session[1]
            /\ rev \in PassThroughRevs =>
                  p.payment_status = q.session[1].payment_status
       [] q.kind = CANCELED ->
            /\ p.payment_intent = q.event.object.id
            /\ p.email = BestEffortEmail(q.event.object)
       [] OTHER ->
            /\ p.data = q.event.object
            /\ rev \in KonbiniRevs =>
                  ((p.payment_method = KONBINI)
                     <=> Includes(q.event.object.payment_method_types, KONBINI))
            /\ rev \in PassThroughRevs =>
                  p.payment_status = q.event.object.payment_status

\* the status a request gets from its own verification, lookup and forward
AloneStatus(q) ==
  IF ~q.verified THEN 400
  ELSE IF rev # "part0" /\ (q.lookup = "error" \/ q.fwd = "threw") THEN 500
  ELSE 200

\* C16: with two webhook requests interleaved at their awaits, each payload
\* handed to the forwarder is built from that request's own event or own
\* looked-up session, and each response status is the one the request's
\* own verification, lookup and forward outcomes give.
C16_RequestsIndependent ==
  \A r \in Webhooks :
    /\ r \in Forwarding => OwnPayload(r)
    /\ req[r].pc = "done" => req[r].status = AloneStatus(req[r])

\* a payment-succeeded request and a completed request of another session,
\* both at their forward
C16_Witness ==
  \E r1, r2 \in Forwarding :
    /\ req[r1].kind = SUCCEEDED /\ req[r1].pc = "fetch"
    /\ req[r2].kind = COMPLETED /\ req[r2].pc = "fetch"
    /\ req[r1].session # NoObject
    /\ req[r1].session[1] # req[r2].event.object

\* C12: every entry of the metadata supplied when the session was created
\* is, with the same key and the same string value, in the metadata of the
\* payload posted for the session's checkout-session-completed event.
C12_MetadataRoundTrip ==
  \A r \in Webhooks :
    (req[r].kind = COMPLETED /\ req[r].pc = "fetch" /\ stripe.supplied # NoObject) =>
      LET supplied == stripe.supplied[1]
          forwarded == req[r].payload[1].data.metadata
      IN /\ forwarded # NoObject
         /\ \A k \in DOMAIN supplied :
              k \in DOMAIN forwarded[1] /\ forwarded[1][k] = supplied[k]

\* C20: once the collaborator has received a paid or complete payload for
\* a pay-at-store session, it receives no pending payload for it.
C20_NoPendingAfterComplete ==
  stripe.stage \in {"awaiting", "paid_store"} =>
    \A i, j \in DOMAIN gas :
      (i < j /\ gas[i].payment_status \in CompleteStatuses) =>
        gas[j].payment_status \notin PendingStatuses

====
